---- MODULE Spec2Model ----
(***************************************************************************)
(* Model of Tomahawk::Accounts::CredentialsManager                         *)
(* (src/libtomahawk/accounts/CredentialsManager.cpp).                      *)
(*                                                                         *)
(* The manager keeps a registry of services (m_services), a cache of       *)
(* credentials (m_credentials) and, per service, the list of read jobs in  *)
(* flight (m_readJobs).  QtKeychain jobs are asynchronous: start() only    *)
(* queues the job, its finished() signal is delivered later to             *)
(* keychainJobFinished, in any order.                                      *)
(*                                                                         *)
(* A text (QString) is a sequence of tokens.  The punctuation tokens are   *)
(* those of JSON; every other token stands for one piece of text free of   *)
(* punctuation (inside a JSON object: one string literal).  "euro" stands  *)
(* for a character outside Latin-1.                                        *)
(***************************************************************************)
EXTENDS Naturals, Sequences, FiniteSets, TLC

\* ---------------------------------------------------------------- universe
Services == {"s1", "s2"}
KeyIds == {"k1", "k2"}


\* ------------------------------------------------------------------ QVariant
EmptyHash == [n \in {} |-> ""]

\* QVariant(): the invalid (null) variant
Null == [type |-> "Invalid", text |-> <<>>, hash |-> EmptyHash]
\* QVariant( QString )
StringVariant(text) == [type |-> "String", text |-> text, hash |-> EmptyHash]
\* QVariant( QVariantHash )
HashVariant(hash) == [type |-> "Hash", text |-> <<>>, hash |-> hash]

ObjectAB == <<"{", "a", ":", "b", "}">>

\* values handed to setCredentials
SetValues ==
    { Null,
      StringVariant(<<>>),
      StringVariant(<<"pw">>),
      StringVariant(ObjectAB),
      HashVariant(EmptyHash),
      HashVariant([n \in {"a"} |-> "b"]),
      HashVariant([n \in {"a", "b"} |-> IF n = "a" THEN "b" ELSE "euro"]) }

\* payloads the keychain may hand back to a successful read job
ReadTexts ==
    { <<>>,
      <<"euro">>,
      <<"{", "}">>,
      <<"[", "]">>,
      ObjectAB,
      <<"{", "b", ":", "u20ac", ",", "a", ":", "b", "}">> }

\* the test of setCredentials' first branch
IsEmptyValue(value) ==
    \/ value.type = "Invalid"
    \/ (value.type = "Hash" /\ DOMAIN value.hash = {})
    \/ (value.type = "String" /\ value.text = <<>>)

\* ------------------------------------------------------------------- codec
Punctuation == {"{", "}", "[", "]", ":", ","}

\* QString::toLatin1: a character outside Latin-1 becomes '?'
ToLatin1(text) == [i \in DOMAIN text |-> IF text[i] = "euro" THEN "?" ELSE text[i]]

\* QJson writes a character above 127 as a \u escape (one token here) and
\* reads the escape back as the character
Escape(tok) == IF tok = "euro" THEN "u20ac" ELSE tok
Unescape(tok) == IF tok = "u20ac" THEN "euro" ELSE tok

\* QVariantMap::insert / QVariantHash::insert: a later value replaces an earlier one
HashInsert(hash, name, v) ==
    [n \in DOMAIN hash \cup {name} |-> IF n = name THEN v ELSE hash[n]]

\* the members of a JSON object, name : value { , name : value }
RECURSIVE ParseMembers(_, _)
ParseMembers(toks, map) ==
    IF Len(toks) < 3 \/ toks[1] \in Punctuation \/ toks[2] # ":" \/ toks[3] \in Punctuation
    THEN [ok |-> FALSE, map |-> EmptyHash]
    ELSE LET got == HashInsert(map, Unescape(toks[1]), Unescape(toks[3]))
         IN  IF Len(toks) = 3 THEN [ok |-> TRUE, map |-> got]
             ELSE IF toks[4] # "," THEN [ok |-> FALSE, map |-> EmptyHash]
             ELSE ParseMembers(SubSeq(toks, 5, Len(toks)), got)

\* QJson::Parser::parse followed by QVariant::toMap: ok tells whether the
\* text is JSON; map is the parsed object, empty when the text is not JSON
\* or is JSON of another kind (here: the empty array).
ParseToMap(data) ==
    IF data = <<"[", "]">> THEN [ok |-> TRUE, map |-> EmptyHash]
    ELSE IF Len(data) >= 2 /\ data[1] = "{" /\ data[Len(data)] = "}"
    THEN IF Len(data) = 2 THEN [ok |-> TRUE, map |-> EmptyHash]
         ELSE ParseMembers(SubSeq(data, 2, Len(data) - 1), EmptyHash)
    ELSE [ok |-> FALSE, map |-> EmptyHash]

\* the orders in which a QHash may be iterated
Orders(S) == {o \in [1..Cardinality(S) -> S] : \A i, j \in DOMAIN o : i # j => o[i] # o[j]}

RECURSIVE Members(_, _, _)
Members(hash, order, i) ==
    IF i > Len(order) THEN <<>>
    ELSE (IF i > 1 THEN <<",">> ELSE <<>>) \o <<Escape(order[i]), ":", Escape(hash[order[i]])>>
         \o Members(hash, order, i + 1)

\* QJson::Serializer::serialize of a QVariantHash, iterated in the given order
Serialize(hash, order) == <<"{">> \o Members(hash, order, 1) \o <<"}">>

\* keychainJobFinished, lines 236-254: what a successful read puts in the cache
ReadCredsUnchecked(textData) ==
    LET parsed == ParseToMap(ToLatin1(textData))
    IN  IF ~parsed.ok THEN StringVariant(textData) ELSE HashVariant(parsed.map)
ReadCreds(textData) ==
    LET parsed == ParseToMap(ToLatin1(textData))
        hash == parsed.map
    IN  IF ~parsed.ok \/ DOMAIN hash = {}
        THEN StringVariant(textData)
        ELSE HashVariant(hash)

WriteTextsHashOnly(value, tryToWriteAsString) ==
    IF value.type = "Hash"
    THEN {Serialize(value.hash, o) : o \in Orders(DOMAIN value.hash)}
    ELSE {<<>>}
WriteTextsWhenAsked(value, tryToWriteAsString) ==
    IF tryToWriteAsString
    THEN IF value.type = "String" THEN {value.text}
         ELSE {Serialize(value.hash, o) : o \in Orders(DOMAIN value.hash)}
    ELSE {<<>>}
\* setCredentials, lines 176-196: the texts the write job may carry.  When
\* neither branch is taken setTextData is never called and the job keeps
\* its default, empty text.
WriteTexts(value, tryToWriteAsString) ==
    IF tryToWriteAsString /\ value.type = "String" THEN {value.text}
    ELSE IF value.type = "Hash"
    THEN {Serialize(value.hash, o) : o \in Orders(DOMAIN value.hash)}
    ELSE {<<>>}

\* ------------------------------------------------------------------- state
VARIABLES
    m_services,     \* QHash< QString, QStringList >: service -> registered keys
    m_credentials,  \* QHash< CredentialsStorageKey, QVariant >, as its set of entries
    m_readJobs,     \* QHash< QString, QList< ReadPasswordJob* > >
    jobs,           \* the QtKeychain jobs started and not yet finished
    addCount,       \* history: addService calls made, per service
    setCount,       \* history: setCredentials calls made
    readyCount,     \* history: serviceReady signals emitted, per service
    lastOp,         \* history: the call or slot that ran last
    m_mutex,        \* QMutex: the thread that holds it, NoThread when it is free
    threads,        \* where each calling thread is in setCredentials, and its locals
    serial,         \* history: the cache and the jobs that the setCredentials calls
                    \* give when each runs alone, in the order the mutex was taken
    raced           \* history: the read jobs in flight whose cache entry
                    \* setCredentials has written or removed since they started

vars == <<m_services, m_credentials, m_readJobs, jobs, addCount, setCount, readyCount, lastOp,
          m_mutex, threads, serial, raced>>

\* the threads that call setCredentials at the same time
Threads == {"t1", "t2"}
NoThread == ""

\* CredentialsStorageKey( service, key )
CredentialsStorageKey(service, key) == [service |-> service, key |-> key]

StorageKeys == {CredentialsStorageKey(s, k) : s \in Services, k \in KeyIds}

\* CredentialsStorageKey::operator==
KeyEquals(a, b) == (a.key = b.key) /\ (a.service = b.service)

\* QHash::contains, QHash::value, QHash::insert and QHash::remove on the
\* entries of m_credentials; two keys are the same entry when operator== says so
Contains(creds, csKey) == \E e \in creds : KeyEquals(e.k, csKey)

Value(creds, csKey) ==
    IF Contains(creds, csKey)
    THEN (CHOOSE e \in creds : KeyEquals(e.k, csKey)).v
    ELSE Null

RemoveNothing(creds, csKey) == creds
Remove(creds, csKey) == {e \in creds : ~KeyEquals(e.k, csKey)}

InsertIfAbsent(creds, csKey, value) ==
    IF Contains(creds, csKey) THEN creds ELSE creds \cup {[k |-> csKey, v |-> value]}
Insert(creds, csKey, value) ==
    IF Contains(creds, csKey)
    THEN {IF KeyEquals(e.k, csKey) THEN [k |-> e.k, v |-> value] ELSE e : e \in creds}
    ELSE creds \cup {[k |-> csKey, v |-> value]}

\* setCredentials, line 155: no credentials for this key, bail
NeverBail(creds, csKey) == FALSE
NoCredentials(creds, csKey) == ~Contains(creds, csKey)

\* setCredentials, line 166: the credentials have not changed, bail
NeverSame(value, cached) == FALSE
SameCredentials(value, cached) == value = cached

\* QStringList keys( const QString& service ), as the set of its elements
KeysOfAllServices(service) == {e.k.key : e \in m_credentials}
Keys(service) == {e.k.key : e \in {c \in m_credentials : c.k.service = service}}

\* QStringList services()
ServicesList == DOMAIN m_services

\* QVariant credentials( const CredentialsStorageKey& key )
Credentials(csKey) == Value(m_credentials, csKey)

\* QList::removeOne, line 263
RemoveAll(list, j) == <<>>
KeepAll(list, j) == list
RECURSIVE RemoveOne(_, _)
RemoveOne(list, j) ==
    IF list = <<>> THEN <<>>
    ELSE IF Head(list) = j THEN Tail(list)
    ELSE <<Head(list)>> \o RemoveOne(Tail(list), j)

\* A job object is known by its address.  Two live jobs never share one, and
\* a finished job has left m_readJobs before its address can be used again,
\* so the model names a job by when it was made: a read job by the
\* addService call of its service (cycle) and its place in accountIds, a
\* write or delete job by the setCredentials call (n).
ReadJobId(cycle, i) == <<cycle, i>>
SetJobId(n) == <<n, 0>>

ReadPasswordJob(id, service, key, cycle) ==
    [id |-> id, kind |-> "read", service |-> service, key |-> key, text |-> <<>>,
     value |-> Null, flag |-> FALSE, cycle |-> cycle]
WritePasswordJob(id, service, key, text, value, flag) ==
    [id |-> id, kind |-> "write", service |-> service, key |-> key, text |-> text,
     value |-> value, flag |-> flag, cycle |-> 0]
DeletePasswordJob(id, service, key) ==
    [id |-> id, kind |-> "delete", service |-> service, key |-> key, text |-> <<>>,
     value |-> Null, flag |-> FALSE, cycle |-> 0]

\* lastOp: op is the function that ran, path the branch it took, value and
\* flag the arguments of setCredentials, text the payload a read job came
\* back with, raced whether that read job was in raced
NoOp ==
    [op |-> "constructor", service |-> "", key |-> "", value |-> Null, flag |-> FALSE,
     path |-> "", text |-> <<>>, raced |-> FALSE]

\* the read jobs in flight for csKey
RacingReads(js, csKey) ==
    {j.id : j \in {r \in js : r.kind = "read" /\ r.service = csKey.service
                                /\ r.key = csKey.key}}

\* a thread that is not in setCredentials
Idle ==
    [pc |-> "idle", csKey |-> CredentialsStorageKey("", ""), value |-> Null, flag |-> FALSE,
     n |-> 0, path |-> ""]

Init ==
    /\ m_services = [s \in {} |-> <<>>]
    /\ m_credentials = {}
    /\ m_readJobs = [s \in Services |-> <<>>]
    /\ jobs = {}
    /\ addCount = [s \in Services |-> 0]
    /\ setCount = 0
    /\ readyCount = [s \in Services |-> 0]
    /\ lastOp = NoOp
    /\ m_mutex = NoThread
    /\ threads = [t \in Threads |-> Idle]
    /\ serial = [creds |-> {}, jobs |-> {}]
    /\ raced = {}

\* ----------------------------------------------------------------- actions
\* loadCredentials, lines 87-100: one read job per element of accountIds,
\* each appended to m_readJobs[ service ] and started
RECURSIVE LaunchReadJobs(_, _, _, _, _, _)
LaunchReadJobs(js, list, accountIds, i, service, cycle) ==
    IF i > Len(accountIds) THEN [jobs |-> js, list |-> list]
    ELSE LET id == ReadJobId(cycle, i)
         IN  LaunchReadJobs(js \cup {ReadPasswordJob(id, service, accountIds[i], cycle)},
                            Append(list, id), accountIds, i + 1, service, cycle)

\* loadCredentials, lines 102-106: the test that guards emit serviceReady
NothingLaunched(list) == list = <<>>

Adds == addCount["s1"] + addCount["s2"]

\* void addService( const QString& service, const QStringList& accountIds )
AddService(service, accountIds) ==
    /\ LET services == [s \in DOMAIN m_services \cup {service} |->
                            IF s = service THEN accountIds ELSE m_services[s]]
           launched == LaunchReadJobs(jobs, m_readJobs[service], services[service], 1,
                                      service, addCount[service] + 1)
           ready == NothingLaunched(launched.list)
       IN  /\ m_services' = services
           /\ jobs' = launched.jobs
           /\ m_readJobs' = [m_readJobs EXCEPT ![service] = launched.list]
           /\ readyCount' = [readyCount EXCEPT ![service] = IF ready THEN @ + 1 ELSE @]
           /\ lastOp' = [NoOp EXCEPT !.op = "addService", !.service = service,
                                     !.path = IF ready THEN "ready" ELSE "loading"]
    /\ addCount' = [addCount EXCEPT ![service] = @ + 1]
    /\ UNCHANGED <<m_credentials, setCount, m_mutex, threads, serial, raced>>

\* void setCredentials( const CredentialsStorageKey& csKey, const QVariant& value,
\*                      bool tryToWriteAsString ), under QMutexLocker( &m_mutex )
SetCredentials(csKey, value, tryToWriteAsString) ==
    LET done == [NoOp EXCEPT !.op = "setCredentials", !.service = csKey.service,
                             !.key = csKey.key, !.value = value,
                             !.flag = tryToWriteAsString]
    IN
    /\ setCount' = setCount + 1
    /\ UNCHANGED <<m_services, m_readJobs, addCount, readyCount, m_mutex, threads, serial>>
    /\ IF IsEmptyValue(value)
       THEN IF NoCredentials(m_credentials, csKey)
            THEN /\ UNCHANGED <<m_credentials, jobs, raced>>
                 /\ lastOp' = [done EXCEPT !.path = "bail: no credentials"]
            ELSE /\ m_credentials' = Remove(m_credentials, csKey)
                 /\ raced' = raced \cup RacingReads(jobs, csKey)
                 /\ jobs' = jobs \cup {DeletePasswordJob(SetJobId(setCount + 1),
                                                        csKey.service, csKey.key)}
                 /\ lastOp' = [done EXCEPT !.path = "delete"]
       ELSE IF SameCredentials(value, Value(m_credentials, csKey))
            THEN /\ UNCHANGED <<m_credentials, jobs, raced>>
                 /\ lastOp' = [done EXCEPT !.path = "bail: unchanged"]
            ELSE /\ m_credentials' = Insert(m_credentials, csKey, value)
                 /\ raced' = raced \cup RacingReads(jobs, csKey)
                 /\ \E text \in WriteTexts(value, tryToWriteAsString) :
                        jobs' = jobs \cup {WritePasswordJob(SetJobId(setCount + 1), csKey.service,
                                            csKey.key, text, value, tryToWriteAsString)}
                 /\ lastOp' = [done EXCEPT !.path = "write"]

\* void setCredentials( const QString& serviceName, const QString& key,
\*                      const QVariantHash& value )
SetCredentialsHash(serviceName, key, hash) ==
    SetCredentials(CredentialsStorageKey(serviceName, key), HashVariant(hash), FALSE)

\* void setCredentials( const QString& serviceName, const QString& key,
\*                      const QString& value )
SetCredentialsString(serviceName, key, text) ==
    SetCredentials(CredentialsStorageKey(serviceName, key), StringVariant(text), TRUE)

\* keychainJobFinished, lines 265-268: the test that guards emit serviceReady
AlwaysDrained(list) == TRUE
Drained(list) == list = <<>>

\* keychainJobFinished, line 229: qobject_cast< QKeychain::ReadPasswordJob* >( j )
IsAnyJob(j) == TRUE
IsReadJob(j) == j.kind = "read"

\* keychainJobFinished, line 231: readJob->error() == QKeychain::NoError
AlwaysNoError(error) == TRUE
NoError(error) == error = "NoError"

\* void keychainJobFinished( QKeychain::Job* j ); error and textData are
\* what the keychain reports for the job
KeychainJobFinished(j, error, textData) ==
    /\ j \in jobs
    /\ IF IsReadJob(j)
       THEN LET left == RemoveOne(m_readJobs[j.service], j.id)
            IN  /\ m_credentials' =
                       IF NoError(error)
                       THEN Insert(m_credentials, CredentialsStorageKey(j.service, j.key),
                                   ReadCreds(textData))
                       ELSE m_credentials
                /\ m_readJobs' = [m_readJobs EXCEPT ![j.service] = left]
                /\ readyCount' = [readyCount EXCEPT ![j.service] =
                                      IF Drained(left) THEN @ + 1 ELSE @]
                /\ lastOp' = [NoOp EXCEPT !.op = "keychainJobFinished",
                                          !.service = j.service, !.key = j.key,
                                          !.path = IF error = "NoError" THEN "read"
                                                   ELSE "read error",
                                          !.text = IF error = "NoError" THEN textData
                                                   ELSE <<>>,
                                          !.raced = j.id \in raced]
       ELSE /\ UNCHANGED <<m_credentials, m_readJobs, readyCount>>
            /\ lastOp' = [NoOp EXCEPT !.op = "keychainJobFinished",
                                      !.service = j.service, !.key = j.key,
                                      !.path = IF error = "NoError" THEN j.kind
                                               ELSE j.kind \o " error"]
    /\ jobs' = jobs \ {j}
    /\ serial' = [serial EXCEPT !.jobs = {s \in @ : s.id # j.id}]
    /\ raced' = raced \ {j.id}
    /\ UNCHANGED <<m_services, addCount, setCount, m_mutex, threads>>

Errors == {"NoError", "OtherError"}

\* ------------------------------------------------ setCredentials, by thread
\* what tells one job from another apart from the text it carries
Shape(j) ==
    [id |-> j.id, kind |-> j.kind, service |-> j.service, key |-> j.key,
     value |-> j.value, flag |-> j.flag]

\* lines 148-207 run by one thread alone: the cache and the jobs after call
\* number n, from the cache and the jobs s before it
SerialSet(s, csKey, value, tryToWriteAsString, n) ==
    IF IsEmptyValue(value)
    THEN IF NoCredentials(s.creds, csKey)
         THEN s
         ELSE [creds |-> Remove(s.creds, csKey),
               jobs |-> s.jobs \cup {Shape(DeletePasswordJob(SetJobId(n), csKey.service,
                                                             csKey.key))}]
    ELSE IF SameCredentials(value, Value(s.creds, csKey))
         THEN s
         ELSE [creds |-> Insert(s.creds, csKey, value),
               jobs |-> s.jobs \cup {Shape(WritePasswordJob(SetJobId(n), csKey.service,
                                                            csKey.key, <<>>, value,
                                                            tryToWriteAsString))}]

\* line 148: QMutexLocker's constructor blocks in m_mutex.lock() until this
\* holds
AlwaysFree(mutex) == TRUE
MutexFree(mutex) == mutex = NoThread

\* line 145: a thread enters setCredentials; n is the number of the call
Call(t, csKey, value, tryToWriteAsString) ==
    /\ threads[t].pc = "idle"
    /\ setCount' = setCount + 1
    /\ threads' = [threads EXCEPT ![t] =
                       [pc |-> "lock", csKey |-> csKey, value |-> value,
                        flag |-> tryToWriteAsString, n |-> setCount + 1, path |-> ""]]
    /\ UNCHANGED <<m_services, m_credentials, m_readJobs, jobs, addCount, readyCount,
                   lastOp, m_mutex, serial, raced>>

\* line 148: QMutexLocker locker( &m_mutex )
Lock(t) ==
    /\ threads[t].pc = "lock"
    /\ MutexFree(m_mutex)
    /\ m_mutex' = t
    /\ threads' = [threads EXCEPT ![t].pc = "check"]
    /\ serial' = SerialSet(serial, threads[t].csKey, threads[t].value, threads[t].flag,
                           threads[t].n)
    /\ UNCHANGED <<m_services, m_credentials, m_readJobs, jobs, addCount, setCount,
                   readyCount, lastOp, raced>>

\* what a returning call leaves in lastOp
Returned(c, path) ==
    [NoOp EXCEPT !.op = "setCredentials", !.service = c.csKey.service, !.key = c.csKey.key,
                 !.value = c.value, !.flag = c.flag, !.path = path]

\* lines 151-156 and 166-167: the tests on the value and on the cache; a
\* bail returns, and ~QMutexLocker unlocks m_mutex
Check(t) ==
    /\ threads[t].pc = "check"
    /\ LET c == threads[t]
           path == IF IsEmptyValue(c.value)
                   THEN IF NoCredentials(m_credentials, c.csKey)
                        THEN "bail: no credentials" ELSE "delete"
                   ELSE IF SameCredentials(c.value, Value(m_credentials, c.csKey))
                        THEN "bail: unchanged" ELSE "write"
       IN  IF path \in {"bail: no credentials", "bail: unchanged"}
           THEN /\ threads' = [threads EXCEPT ![t] = Idle]
                /\ m_mutex' = NoThread
                /\ lastOp' = Returned(c, path)
           ELSE /\ threads' = [threads EXCEPT ![t].pc = "mutate", ![t].path = path]
                /\ UNCHANGED <<m_mutex, lastOp>>
    /\ UNCHANGED <<m_services, m_credentials, m_readJobs, jobs, addCount, setCount,
                   readyCount, serial, raced>>

\* line 158, m_credentials.remove( csKey ), or line 169,
\* m_credentials.insert( csKey, value )
Mutate(t) ==
    /\ threads[t].pc = "mutate"
    /\ m_credentials' = IF threads[t].path = "delete"
                        THEN Remove(m_credentials, threads[t].csKey)
                        ELSE Insert(m_credentials, threads[t].csKey, threads[t].value)
    /\ threads' = [threads EXCEPT ![t].pc = "dispatch"]
    /\ raced' = raced \cup RacingReads(jobs, threads[t].csKey)
    /\ UNCHANGED <<m_services, m_readJobs, jobs, addCount, setCount, readyCount, lastOp,
                   m_mutex, serial>>

\* lines 160-162 or 171-199, then 201-207: the job is made and started; the
\* call returns, and ~QMutexLocker unlocks m_mutex
Dispatch(t) ==
    /\ threads[t].pc = "dispatch"
    /\ LET c == threads[t]
       IN  /\ IF c.path = "delete"
              THEN jobs' = jobs \cup {DeletePasswordJob(SetJobId(c.n), c.csKey.service,
                                                        c.csKey.key)}
              ELSE \E text \in WriteTexts(c.value, c.flag) :
                       jobs' = jobs \cup {WritePasswordJob(SetJobId(c.n), c.csKey.service,
                                                           c.csKey.key, text, c.value,
                                                           c.flag)}
           /\ lastOp' = Returned(c, c.path)
    /\ threads' = [threads EXCEPT ![t] = Idle]
    /\ m_mutex' = NoThread
    /\ UNCHANGED <<m_services, m_credentials, m_readJobs, addCount, setCount, readyCount,
                   serial, raced>>

HashValues(values) == {v.hash : v \in {w \in values : w.type = "Hash"}}
StringValues(values) == {v.text : v \in {w \in values : w.type = "String"}}

\* every call and every job completion, with the arguments and the keychain's
\* answers drawn from the given sets, while fewer than maxCalls calls of
\* addService and setCredentials have been made
NextOver(services, keys, keyLists, values, texts, maxCalls) ==
    \/ /\ Adds + setCount < maxCalls
       /\ \E service \in services, accountIds \in keyLists : AddService(service, accountIds)
    \/ /\ Adds + setCount < maxCalls
       /\ \E service \in services, key \in keys, value \in values, flag \in BOOLEAN :
              SetCredentials(CredentialsStorageKey(service, key), value, flag)
    \/ /\ Adds + setCount < maxCalls
       /\ \E service \in services, key \in keys, hash \in HashValues(values) :
              SetCredentialsHash(service, key, hash)
    \/ /\ Adds + setCount < maxCalls
       /\ \E service \in services, key \in keys, text \in StringValues(values) :
              SetCredentialsString(service, key, text)
    \/ \E j \in jobs, error \in Errors, textData \in texts :
           KeychainJobFinished(j, error, IF j.kind = "read" THEN textData ELSE j.text)

\* Two services and every shape of accountIds, with few credential values:
\* the load cycles and the readiness signal.
LoadCalls == 3
LoadValues == {StringVariant(<<"pw">>), HashVariant(EmptyHash)}
LoadTexts == {ObjectAB}
LoadLists == {<<>>, <<"k1">>, <<"k1", "k2">>}
NextLoad == NextOver(Services, {"k1"}, LoadLists, LoadValues, LoadTexts, LoadCalls)
SpecLoad == Init /\ [][NextLoad]_vars

\* One service, with every credential value and every payload: the cache
\* and the encodings.
StoreCalls == 3
StoreLists == {<<>>, <<"k1">>}
NextStore == NextOver({"s1"}, {"k1"}, StoreLists, SetValues, ReadTexts, StoreCalls)
SpecStore == Init /\ [][NextStore]_vars

\* One service whose accountIds may name a key twice, with every shape of
\* empty credentials.
DupCalls == 3
DupLists == {<<"k1">>, <<"k1", "k1">>, <<"k1", "k2">>}
DupValues == {Null, StringVariant(<<>>), StringVariant(<<"pw">>), HashVariant(EmptyHash)}
NextDup == NextOver({"s1"}, {"k1"}, DupLists, DupValues, LoadTexts, DupCalls)
SpecDup == Init /\ [][NextDup]_vars

\* Two threads in setCredentials at once, a string written as it is and a
\* bundle as JSON, and the completions of the jobs they start.
ThreadCalls == 3
ThreadValues == {Null, StringVariant(<<"pw">>), HashVariant([n \in {"a"} |-> "b"])}
NextThreads ==
    \/ /\ setCount < ThreadCalls
       /\ \E t \in Threads, key \in KeyIds, value \in ThreadValues :
              Call(t, CredentialsStorageKey("s1", key), value, value.type = "String")
    \/ \E t \in Threads : Lock(t)
    \/ \E t \in Threads : Check(t)
    \/ \E t \in Threads : Mutate(t)
    \/ \E t \in Threads : Dispatch(t)
    \/ \E j \in jobs, error \in Errors : KeychainJobFinished(j, error, j.text)
SpecThreads == Init /\ [][NextThreads]_vars

\* One service, where every read job that was started is completed in the
\* end: QtKeychain reports each job it was handed, with or without an error.
LiveCalls == 2
ReadJobFinished ==
    \E j \in jobs, error \in Errors, textData \in LoadTexts :
        j.kind = "read" /\ KeychainJobFinished(j, error, textData)
LiveServices == {"s1"}
NextLive == NextOver(LiveServices, {"k1"}, LoadLists, LoadValues, LoadTexts, LiveCalls)
SpecLive == Init /\ [][NextLive]_vars /\ WF_vars(ReadJobFinished)

\* ------------------------------------------------------------------ claims
\* the read jobs of a service that are still in flight
ReadsInFlight(js, service) == {j \in js : j.kind = "read" /\ j.service = service}

\* C1: once every read job issued for a service has completed, the number of
\* serviceReady( service ) signals emitted equals the number of
\* addService( service, keys ) calls made.
C1_OneReadyPerAddService ==
    \A s \in Services :
        ReadsInFlight(jobs, s) = {} => readyCount[s] = addCount[s]

\* C2: serviceReady( service ) is emitted only when no read job issued for
\* the service in its current load cycle is still in flight.
C2_ReadyOnlyAfterAllReads ==
    [][\A s \in Services :
          readyCount'[s] # readyCount[s] =>
              /\ readyCount'[s] = readyCount[s] + 1
              /\ \A j \in ReadsInFlight(jobs', s) : j.cycle # addCount'[s]]_vars

\* C2 happens: a load cycle of two reads has ended, its serviceReady was
\* emitted by the completion of the read that was handled last.
C2_Witness ==
    \E s \in Services :
        /\ lastOp.op = "keychainJobFinished" /\ lastOp.service = s
        /\ lastOp.path \in {"read", "read error"}
        /\ Len(m_services[s]) = 2
        /\ addCount[s] = 1 /\ readyCount[s] = 1
        /\ ReadsInFlight(jobs, s) = {}

\* C3: addService( service, keys ) with an empty key list starts no job and
\* emits serviceReady( service ) within the call.
C3_EmptyAddServiceIsReady ==
    [][\A s \in Services :
          (addCount'[s] = addCount[s] + 1 /\ m_services'[s] = <<>>) =>
              /\ jobs' = jobs
              /\ readyCount'[s] = readyCount[s] + 1]_vars

\* C10: keys( service ) is the set of the keys k for which the cache holds an
\* entry for ( service, k ).
C10_KeysAreTheCachedKeysOfTheService ==
    \A s \in Services :
        Keys(s) = {k \in KeyIds : Contains(m_credentials, CredentialsStorageKey(s, k))}

\* C10 happens: a key is cached under one service only, and a registered key
\* of the other service is not cached.
C10_Witness ==
    /\ "k1" \in Keys("s2") /\ "k1" \notin Keys("s1")
    /\ "s1" \in ServicesList /\ m_services["s1"] = <<"k1">>
    /\ Credentials(CredentialsStorageKey("s1", "k1")) = Null
    /\ Credentials(CredentialsStorageKey("s2", "k1")) # Null

\* the entry the cache holds for ( service, key ), Null when it holds none
Cached(creds, service, key) ==
    IF \E e \in creds : e.k.service = service /\ e.k.key = key
    THEN (CHOOSE e \in creds : e.k.service = service /\ e.k.key = key).v
    ELSE Null

\* a step that is one call of setCredentials
IsSetCall == setCount' = setCount + 1

\* a step that handles the successful completion of a read job
IsReadDone ==
    /\ Cardinality(jobs') < Cardinality(jobs)
    /\ lastOp'.op = "keychainJobFinished" /\ lastOp'.path = "read"

\* C4: the cache holds no entry whose value is absent or empty.
C4_NoEmptyEntry ==
    \A e \in m_credentials : ~IsEmptyValue(e.v)

\* C5: a setCredentials call that follows at once a setCredentials call with
\* the same key and the same non-empty value changes nothing and starts no job.
C5_SecondSetIsNoOp ==
    [][( /\ IsSetCall
         /\ lastOp.op = "setCredentials"
         /\ lastOp'.service = lastOp.service /\ lastOp'.key = lastOp.key
         /\ lastOp'.value = lastOp.value
         /\ ~IsEmptyValue(lastOp.value) ) =>
            (jobs' = jobs /\ m_credentials' = m_credentials)]_vars

\* C5 happens: the call before the last one started the write job of a
\* value, the last call set the same value for the same key and bailed.
C5_Witness ==
    /\ lastOp.op = "setCredentials" /\ lastOp.path = "bail: unchanged"
    /\ setCount >= 2
    /\ \E w \in jobs :
           /\ w.kind = "write" /\ w.id = SetJobId(setCount - 1)
           /\ w.service = lastOp.service /\ w.key = lastOp.key
           /\ w.value = lastOp.value

\* C6: setCredentials with an absent or empty value for a key that has no
\* cache entry starts no job and leaves the cache, the registry and the
\* pending read jobs as they are.
C6_DeleteOfAbsentIsNoOp ==
    [][( /\ IsSetCall
         /\ IsEmptyValue(lastOp'.value)
         /\ Cached(m_credentials, lastOp'.service, lastOp'.key) = Null ) =>
            UNCHANGED <<jobs, m_credentials, m_services, m_readJobs>>]_vars

\* C6 happens: the last call was a setCredentials with an empty value that
\* bailed, while a read job of the service was pending.
C6_Witness ==
    /\ lastOp.op = "setCredentials" /\ lastOp.path = "bail: no credentials"
    /\ IsEmptyValue(lastOp.value)
    /\ m_readJobs[lastOp.service] # <<>>

\* C7: setCredentials( service, key, string ) with a non-empty string that
\* differs from the cached value leaves the cache mapping ( service, key ) to
\* that string and starts one job: a write job for ( service, key ) whose
\* text is the string.
C7_StringIsWrittenAsItIs ==
    [][( /\ IsSetCall
         /\ lastOp'.flag /\ lastOp'.value.type = "String"
         /\ lastOp'.value.text # <<>>
         /\ lastOp'.value # Cached(m_credentials, lastOp'.service, lastOp'.key) ) =>
            /\ Cached(m_credentials', lastOp'.service, lastOp'.key) = lastOp'.value
            /\ jobs \subseteq jobs'
            /\ \E w \in jobs' \ jobs :
                   /\ jobs' \ jobs = {w}
                   /\ w.kind = "write"
                   /\ w.service = lastOp'.service /\ w.key = lastOp'.key
                   /\ w.text = lastOp'.value.text]_vars

\* C7 happens: the last call set a string that reads as JSON while a read of
\* the key was in flight; the cache holds the string and the write job the
\* call started carries it.
C7_Witness ==
    /\ lastOp.op = "setCredentials" /\ lastOp.path = "write"
    /\ lastOp.flag /\ lastOp.value = StringVariant(ObjectAB)
    /\ Cached(m_credentials, lastOp.service, lastOp.key) = lastOp.value
    /\ \E r \in jobs : r.kind = "read" /\ r.key = lastOp.key
    /\ \E w \in jobs :
           /\ w.kind = "write" /\ w.id = SetJobId(setCount)
           /\ w.key = lastOp.key /\ w.text = ObjectAB

\* C8: the text of the write job that setCredentials starts for a non-empty
\* bundle is one that the read-completion handler turns back into that bundle.
C8_BundleRoundTrip ==
    \A w \in jobs :
        (w.kind = "write" /\ w.value.type = "Hash") => ReadCreds(w.text) = w.value

\* C8 happens: a read of the key came back with the text that a write job
\* carries for a bundle of two fields, and the cache holds the bundle.
C8_Witness ==
    /\ lastOp.op = "keychainJobFinished" /\ lastOp.path = "read"
    /\ \E w \in jobs :
           /\ w.kind = "write" /\ w.value.type = "Hash"
           /\ Cardinality(DOMAIN w.value.hash) = 2
           /\ w.service = lastOp.service /\ w.key = lastOp.key
           /\ w.text = lastOp.text
           /\ Cached(m_credentials, lastOp.service, lastOp.key) = w.value

\* C9: a successful read caches a bundle only when its text decodes to a
\* non-empty bundle, and that bundle; otherwise it caches the text as a string.
C9_FallbackDecoding ==
    [][IsReadDone =>
          LET decoded == ParseToMap(ToLatin1(lastOp'.text))
              bundle == decoded.ok /\ DOMAIN decoded.map # {}
              cached == Cached(m_credentials', lastOp'.service, lastOp'.key)
          IN  /\ bundle => (cached.type = "Hash" /\ cached.hash = decoded.map)
              /\ ~bundle => (cached.type = "String" /\ cached.text = lastOp'.text)]_vars

\* C9 happens: a read came back with text that is JSON but no bundle, and
\* the cache holds the text.
C9_Witness ==
    /\ lastOp.op = "keychainJobFinished" /\ lastOp.path = "read"
    /\ lastOp.text = <<"{", "}">>
    /\ Cached(m_credentials, lastOp.service, lastOp.key) = StringVariant(<<"{", "}">>)

\* a step that handles the completion of job j
IsDone(j) == j \in jobs /\ jobs' = jobs \ {j}

\* C11: the completion of a read job that failed leaves the cache as it was.
C11_FailedReadKeepsCache ==
    [][\A j \in jobs :
          (IsDone(j) /\ j.kind = "read" /\ lastOp'.path = "read error") =>
              m_credentials' = m_credentials]_vars

\* C11 happens: a service was registered with two keys, both reads failed,
\* serviceReady was emitted and credentials() returns the null value for
\* both keys.
C11_Witness ==
    \E s \in Services :
        /\ lastOp.op = "keychainJobFinished" /\ lastOp.path = "read error"
        /\ lastOp.service = s
        /\ m_services[s] = <<"k1", "k2">>
        /\ jobs = {} /\ setCount = 0 /\ Adds = 1
        /\ readyCount[s] = 1
        /\ m_credentials = {}
        /\ \A k \in KeyIds : Credentials(CredentialsStorageKey(s, k)) = Null

\* the elements of a list
Range(list) == {list[i] : i \in 1..Len(list)}

\* the read jobs a step starts for ( service, key )
NewReads(service, key) ==
    {j \in jobs' \ jobs : j.kind = "read" /\ j.service = service /\ j.key = key}

\* C12: addService( service, keys ) starts one read job for each distinct key
\* of keys and none for any other key, however often keys names a key and
\* whatever the service was registered with before.
C12_OneReadPerDistinctKey ==
    [][\A s \in Services :
          addCount'[s] = addCount[s] + 1 =>
              \A k \in KeyIds :
                  Cardinality(NewReads(s, k)) =
                      IF k \in Range(m_services'[s]) THEN 1 ELSE 0]_vars

\* the lines of setCredentials that run under the mutex
CriticalSection == {"check", "mutate", "dispatch"}

\* C13: a thread holds the mutex from the tests of setCredentials to its
\* return, whichever return it takes, and to no other time; whenever no
\* thread is between the two, the cache and the jobs in flight are those
\* the calls give when each runs alone, in the order the mutex was taken.
C13_SetCredentialsIsSerial ==
    /\ \A t \in Threads : m_mutex = t <=> threads[t].pc \in CriticalSection
    /\ m_mutex = NoThread =>
           /\ m_credentials = serial.creds
           /\ {Shape(j) : j \in jobs} = serial.jobs
           /\ Cardinality(jobs) = Cardinality(serial.jobs)

\* C13 happens: two calls with the same key and the same value were in
\* setCredentials at once, the one made second took the mutex first and
\* started the write job, the one made first then bailed, and there is
\* one write job.
C13_Witness ==
    /\ setCount = 2 /\ m_mutex = NoThread
    /\ \A t \in Threads : threads[t].pc = "idle"
    /\ lastOp.op = "setCredentials" /\ lastOp.path = "bail: unchanged"
    /\ \E w \in jobs :
           /\ jobs = {w} /\ w.kind = "write" /\ w.id = SetJobId(2)
           /\ w.service = lastOp.service /\ w.key = lastOp.key
           /\ w.value = lastOp.value
           /\ Cached(m_credentials, w.service, w.key) = w.value

\* C14: the completion of a write job or of a delete job, with or without an
\* error, leaves the cache, the registry and the pending read jobs as they
\* are and emits no serviceReady.
C14_WriteDeleteDoneChangesNothing ==
    [][\A j \in jobs :
          (IsDone(j) /\ j.kind \in {"write", "delete"}) =>
              UNCHANGED <<m_credentials, m_services, m_readJobs, readyCount>>]_vars

\* C14 happens: the write job of the only setCredentials call failed while a
\* read of the service was pending; the cache still holds the value that was
\* set, the read is still pending and no serviceReady was emitted.
C14_Witness ==
    /\ lastOp.op = "keychainJobFinished" /\ lastOp.path = "write error"
    /\ setCount = 1 /\ Adds = 1
    /\ Cached(m_credentials, lastOp.service, lastOp.key) # Null
    /\ m_readJobs[lastOp.service] = <<ReadJobId(1, 1)>>
    /\ ReadsInFlight(jobs, lastOp.service) # {}
    /\ readyCount[lastOp.service] = 0

\* C15: when every read job completes in the end, an addService call that
\* did not emit serviceReady( service ) itself is followed by one, whatever
\* the outcomes of the reads; and serviceReady( service ) is never emitted
\* while a read job of the service has not completed.
C15_ReadyInTheEnd ==
    /\ \A s \in LiveServices, r \in 0..LiveCalls :
           ( /\ lastOp.op = "addService" /\ lastOp.service = s
             /\ lastOp.path = "loading" /\ readyCount[s] = r )
               ~> (readyCount[s] > r)
    /\ [][\A s \in Services :
             readyCount'[s] # readyCount[s] => ReadsInFlight(jobs', s) = {}]_vars

\* C15 happens: a service was registered with two keys, then registered
\* again with none while the reads were pending; both reads failed, and the
\* completion of the second emitted the one serviceReady.
C15_Witness ==
    \E s \in Services :
        /\ addCount[s] = 2 /\ m_services[s] = <<>>
        /\ lastOp.op = "keychainJobFinished" /\ lastOp.service = s
        /\ lastOp.path = "read error"
        /\ m_credentials = {} /\ setCount = 0
        /\ ReadsInFlight(jobs, s) = {}
        /\ readyCount[s] = 1

\* C16: when setCredentials has written or removed the cache entry of
\* ( service, key ) while a read job for ( service, key ) was in flight, the
\* successful completion of that read leaves the cache mapping
\* ( service, key ) to what the read's payload decodes to.
C16_ReadOverwritesNewerValue ==
    [][\A j \in jobs :
          ( /\ IsDone(j) /\ j.kind = "read" /\ j.id \in raced
            /\ lastOp'.path = "read" ) =>
              Cached(m_credentials', j.service, j.key) = ReadCreds(lastOp'.text)]_vars

\* C16 happens: the one setCredentials call wrote a value while the read of
\* the key was in flight; its write job is still in flight, the read has
\* completed, and the cache holds the read's value and not the value set.
C16_Witness ==
    /\ lastOp.op = "keychainJobFinished" /\ lastOp.path = "read" /\ lastOp.raced
    /\ setCount = 1
    /\ \E w \in jobs :
           /\ w.kind = "write" /\ w.service = lastOp.service /\ w.key = lastOp.key
           /\ Cached(m_credentials, lastOp.service, lastOp.key) # w.value
    /\ Cached(m_credentials, lastOp.service, lastOp.key) = ReadCreds(lastOp.text)

\* C17: setCredentials with an absent or empty value for a key that has a
\* cache entry removes the entry, so that credentials( key ) is null and
\* keys( service ) does not list the key, starts one job, a delete job for
\* ( service, key ), and leaves every other cache entry as it is.
C17_EmptyValueDeletesEntry ==
    [][( /\ IsSetCall
         /\ IsEmptyValue(lastOp'.value)
         /\ Cached(m_credentials, lastOp'.service, lastOp'.key) # Null ) =>
            LET csKey == CredentialsStorageKey(lastOp'.service, lastOp'.key)
            IN  /\ Value(m_credentials', csKey) = Null
                /\ \A e \in m_credentials' : e.k # csKey
                /\ jobs \subseteq jobs'
                /\ \E d \in jobs' \ jobs :
                       /\ jobs' \ jobs = {d}
                       /\ d.kind = "delete"
                       /\ d.service = csKey.service /\ d.key = csKey.key
                /\ {e \in m_credentials' : e.k # csKey} = {e \in m_credentials : e.k # csKey}]_vars

\* C17 happens: the reads of two keys have cached both, the last call was a
\* setCredentials with an empty value for the first; its delete job is in
\* flight, the first key is gone from the cache and the second is still in.
C17_Witness ==
    /\ lastOp.op = "setCredentials" /\ lastOp.path = "delete"
    /\ IsEmptyValue(lastOp.value)
    /\ lastOp.key = "k1"
    /\ Keys(lastOp.service) = {"k2"}
    /\ Credentials(CredentialsStorageKey(lastOp.service, "k1")) = Null
    /\ Credentials(CredentialsStorageKey(lastOp.service, "k2")) # Null
    /\ \E d \in jobs :
           /\ jobs = {d} /\ d.kind = "delete" /\ d.id = SetJobId(setCount)
           /\ d.service = lastOp.service /\ d.key = "k1"

\* the pending read jobs of a service are the read jobs in flight for it
PendingAreInFlight(service) ==
    /\ Range(m_readJobs[service]) = {j.id : j \in ReadsInFlight(jobs, service)}
    /\ Len(m_readJobs[service]) = Cardinality(ReadsInFlight(jobs, service))

\* C18: in every reachable state m_readJobs[ service ] holds, once each, the
\* read jobs started for the service that have not completed, and
\* serviceReady( service ) is emitted only into a state where it is empty.
C18_PendingReadsAreTracked ==
    /\ [](\A s \in Services : PendingAreInFlight(s))
    /\ [][\A s \in Services :
             readyCount'[s] # readyCount[s] => m_readJobs'[s] = <<>>]_vars

\* C18 happens: two reads were started for the same key, the one started
\* second has completed, and the one started first is the only pending job.
C18_Witness ==
    \E s \in Services :
        /\ addCount[s] = 1 /\ m_services[s] = <<"k1", "k1">>
        /\ lastOp.op = "keychainJobFinished" /\ lastOp.service = s
        /\ m_readJobs[s] = <<ReadJobId(1, 1)>>
        /\ \E j \in jobs : ReadsInFlight(jobs, s) = {j} /\ j.id = ReadJobId(1, 1)
        /\ readyCount[s] = 0

\* C19: the text of every write job stands for the value the call stored in
\* the cache, whatever tryToWriteAsString was: a string is written as it is,
\* a bundle as a text that reads back as the bundle.
C19_WritePayloadIsTheValue ==
    \A w \in jobs :
        w.kind = "write" =>
            /\ w.value.type = "String" => w.text = w.value.text
            /\ w.value.type = "Hash" => ReadCreds(w.text) = w.value

\* C20: the completion of a read job changes the cache only for a key of the
\* key set the service is registered with at that time, so the read of a key
\* that a later addService has dropped changes nothing.
C20_ReadsCacheRegisteredKeysOnly ==
    [][\A j \in jobs :
          (IsDone(j) /\ j.kind = "read" /\ m_credentials' # m_credentials) =>
              j.key \in Range(m_services'[j.service])]_vars

====
